---- MODULE Spec2Model ----
(***************************************************************************)
(* wit-limbo: the adapter that exposes the limbo SQL engine as a           *)
(* WebAssembly component (src/src/lib.rs).                                 *)
(*                                                                         *)
(* The parts of the adapter are modelled each with its own specification,  *)
(* because they share no state in the code:                                *)
(*   SpecPageStore   - Component::new and DatabaseStorage (read_page,      *)
(*                     write_page, sync)                                   *)
(*   SpecCompletions - DatabaseStorage over a file layer that owns the     *)
(*                     completions it is handed                            *)
(*   SpecStatement   - Component::exec / prepare and InnerStatement::all   *)
(*   SpecStatementLive - the same, the loop of all() kept running          *)
(*   SpecReentry     - the same, with all() entered again during a step    *)
(*   SpecValues      - the conversion of a row to boundary values          *)
(*   SpecEntropy     - imported_random                                     *)
(* A panic (unwrap, assert!, todo!, unreachable!, arithmetic overflow      *)
(* under overflow checks) traps the component instance: panic_at records   *)
(* where, and no operation runs afterwards.                                *)
(***************************************************************************)
EXTENDS Integers, Sequences, FiniteSets, TLC

VARIABLES
    panic_at,         \* "none", or the place that panicked (the instance is gone)
    overflow_checks,  \* build profile: TRUE = overflow checks on (debug), FALSE = wrapping (release)
    \* ---- Component::new / DatabaseStorage
    db,               \* "none" | "open"
    page_size,        \* db_header.page_size read at open (0 before)
    new_call,         \* the Component::new call made: its path, and whether the header
                      \* read had completed when page_size was read
    run_once_calls,   \* how often the adapter has called io.run_once()
    ps_call,          \* the last DatabaseStorage call: its function and arguments
    file_ops,         \* the operations that call issued on self.file, in order
    ps_result,        \* what that call returned
    c_log,            \* the calls whose completion is followed into the file layer, in
                      \* order: completion i is the one handed to call c_log[i]
    pending,          \* the completions of the operations queued in the file layer
    fulfilled,        \* the completions the file layer has fulfilled, in order
    \* ---- Connection / Statement
    users,            \* the connection's users table: whether it exists, and its rows
    stmt,             \* the prepared statement (engine cursor), or NoStmt
    all_pc,           \* "idle" | "loop": position of InnerStatement::all
    ret,              \* all()'s local `ret`
    io_seen,          \* IO results seen by the running all()
    emitted,          \* history: the engine rows the cursor emitted to the running/last all()
    started,          \* history: the cursor as the running/last all() found it
    last_step,        \* the last step result all() matched on
    all_result,       \* what the last all() gave its caller
    host_result,      \* what the last exec/prepare gave its caller
    host_call,        \* the last exec/prepare call and whether the engine accepted it
    steps,            \* stmt.step() calls made by the current (or last) all()
    \* ---- imported_random
    fill_pc,          \* "idle" | "loop"
    dest,             \* the destination buffer
    fill_i,           \* the closure's index i
    rng_calls,        \* history: what each random_byte() call of this fill returned
    fill_result,      \* what the last fill returned
    rng_failed,       \* a random_byte() call of this fill found no host entropy
    \* ---- a row on its way to the batch
    conv_row,         \* the engine row last converted: row.get_values()
    conv_out,         \* the row_array made of it
    \* ---- InnerStatement.inner: RefCell<Statement>
    borrow,           \* the RefCell's borrow state: "free" | "mut"
    in_flight         \* stmt.step() calls entered on the statement and not yet returned

cbVars   == <<c_log, pending, fulfilled>>
psVars   == <<db, page_size, new_call, run_once_calls, ps_call, file_ops, ps_result, cbVars>>
stmtVars == <<users, stmt, all_pc, ret, io_seen, emitted, started, last_step,
              all_result, host_result, host_call, steps>>
rngVars  == <<fill_pc, dest, fill_i, rng_calls, fill_result, rng_failed>>
convVars == <<conv_row, conv_out>>
borrowVars == <<borrow, in_flight>>
vars     == <<panic_at, overflow_checks, psVars, stmtVars, rngVars, convVars, borrowVars>>

(***************************************************************************)
(* Bounds of the model                                                     *)
(***************************************************************************)
MaxSmallPage == 3      \* page indices 0..MaxSmallPage, plus the large ones below
MaxRows      == 2      \* rows the users table may hold
MaxIO        == 2      \* IO results the engine may give within one all()
MaxFill      == 4      \* longest buffer handed to imported_random
MaxByte      == 2      \* random_byte() answers 0..MaxByte
MaxPumps     == 2      \* run_once() calls the file layer may need to finish a read
MaxCols      == 2      \* columns of a converted row
MaxCompletions == 2    \* completions followed into the file layer

(***************************************************************************)
(* usize arithmetic.  The component is built for wasm32-unknown-unknown,   *)
(* so usize is 32 bits wide: a usize is the pair <<hi, lo>> of its 16-bit  *)
(* halves.  Each operation returns the wrapped value and whether it        *)
(* overflowed (Rust's overflowing_sub / overflowing_mul).                  *)
(***************************************************************************)
LimbBase == 65536

ToUsize(n) == <<n \div LimbBase, n % LimbBase>>

UsizeMax == <<LimbBase - 1, LimbBase - 1>>

OverflowingAdd(x, y) ==
    LET lo == x[2] + y[2]
        hi == x[1] + y[1] + (lo \div LimbBase)
    IN  [val |-> <<hi % LimbBase, lo % LimbBase>>, ovf |-> hi >= LimbBase]

\* x - 1 on usize
OverflowingSub1(n) ==
    IF n = 0 THEN [val |-> UsizeMax, ovf |-> TRUE]
             ELSE [val |-> ToUsize(n - 1), ovf |-> FALSE]

\* a * d on usize for a small factor d (d <= 256): no partial product leaves
\* the range of the model's integers
MulSmall(a, d) ==
    LET lo == a[2] * d
        hi == a[1] * d + (lo \div LimbBase)
    IN  [val |-> <<hi % LimbBase, lo % LimbBase>>, ovf |-> hi >= LimbBase]

\* t * 256 + a * d, the overflow of every part kept
MulDigit(t, a, d) ==
    LET sh == MulSmall(t.val, 256)
        ad == MulSmall(a, d)
        s  == OverflowingAdd(sh.val, ad.val)
    IN  [val |-> s.val, ovf |-> t.ovf \/ sh.ovf \/ ad.ovf \/ s.ovf]

\* a * n on usize, a a usize and n a buffer length, n taken one base-256
\* digit at a time
OverflowingMul(a, n) ==
    LET t3 == MulSmall(a, (n \div 16777216) % 256)
        t2 == MulDigit(t3, a, (n \div 65536) % 256)
        t1 == MulDigit(t2, a, (n \div 256) % 256)
    IN  MulDigit(t1, a, n % 256)

\* x & y on buffer lengths
RECURSIVE BitAnd(_, _)
BitAnd(x, y) ==
    IF x = 0 \/ y = 0 THEN 0
    ELSE (x % 2) * (y % 2) + 2 * BitAnd(x \div 2, y \div 2)


(***************************************************************************)
(* Inputs the host and the engine may hand to the adapter                  *)
(***************************************************************************)
Paths     == {":memory:", "test.db"}
HeaderPageSizes == {512, 4096}
BigPages  == {32769, 65537}
PageIdxs  == (0..MaxSmallPage) \cup BigPages
BufLens   == {0, 256, 512, 768, 4096, 65536, 65537, 131072}
CompletionKinds == {"Read", "Write", "Sync"}
Completions == [kind : CompletionKinds, len : BufLens]
FileResults == {"Ok", "IOError"}

\* what db_header.page_size may hold while the header read has not landed
UnreadPageSizes == {0} \cup HeaderPageSizes

NoCall == [fn |-> "none"]
NoNew  == [path |-> "none", header_ready |-> FALSE]

(***************************************************************************)
(* Component::new.  The header read that begin_open starts completes after *)
(* `pumps` calls of run_once (0: the file layer completed it at once); ps  *)
(* is the page size in the file's header, unread what the header object    *)
(* holds before the read lands.                                            *)
(***************************************************************************)
\* io.run_once().unwrap(), once, before db_header.borrow().page_size
PumpsBeforeHeaderUse(pumps) == 1

New(path, pumps, ps, unread) ==
    /\ panic_at = "none"
    /\ db = "none"
    /\ IF path = ":memory:"
       THEN LET ready == pumps <= PumpsBeforeHeaderUse(pumps)
            IN  /\ db' = "open"
                /\ run_once_calls' = run_once_calls + PumpsBeforeHeaderUse(pumps)
                /\ page_size' = IF ready THEN ps ELSE unread
                /\ new_call' = [path |-> path, header_ready |-> ready]
                /\ UNCHANGED panic_at
       ELSE /\ panic_at' = "new: todo!()"
            /\ new_call' = [path |-> path, header_ready |-> FALSE]
            /\ UNCHANGED <<db, page_size, run_once_calls>>
    /\ UNCHANGED <<overflow_checks, ps_call, file_ops, ps_result, cbVars, stmtVars, rngVars, convVars,
                   borrowVars>>

(***************************************************************************)
(* DatabaseStorage                                                         *)
(***************************************************************************)
MinPageSize == 512
MaxPageSize == 65536

\* a variant that leaves out the power-of-two test
GeometryRejectedRangeOnly(size) == ~(MinPageSize <= size /\ size <= MaxPageSize)

\* !(512..=65536).contains(&size) || size & (size - 1) != 0
GeometryRejected(size) ==
    \/ ~(MinPageSize <= size /\ size <= MaxPageSize)
    \/ BitAnd(size, size - 1) # 0

\* a variant that takes the page index as 0-based: page_idx * size
PagePosZeroBased(page_idx, size) == OverflowingMul(ToUsize(page_idx), size)

\* (page_idx - 1) * size
PagePos(page_idx, size) ==
    LET a == OverflowingSub1(page_idx)
        m == OverflowingMul(a.val, size)
    IN  [val |-> m.val, ovf |-> a.ovf \/ m.ovf]

Panicked(where)  == [panic |-> where, result |-> "none", ops |-> <<>>]
Returned(r, ops) == [panic |-> "none", result |-> r, ops |-> ops]

\* a variant that hands the completion to a second pread when the first failed
ReadPageOutcomeRetry(page_idx, c, fr) ==
    IF c.kind # "Read" THEN Panicked("read_page: unreachable!()")
    ELSE IF ~(page_idx > 0) THEN Panicked("read_page: assert!(page_idx > 0)")
    ELSE IF GeometryRejected(c.len) THEN Returned("NotADB", <<>>)
    ELSE LET pos == PagePos(page_idx, c.len)
             op  == [op |-> "pread", pos |-> pos.val, len |-> c.len, c |-> c]
         IN  IF pos.ovf /\ overflow_checks
             THEN Panicked("read_page: arithmetic overflow")
             ELSE IF fr = "Ok"
             THEN Returned("Ok", <<op @@ [ans |-> "Ok"]>>)
             ELSE Returned("Ok", <<op @@ [ans |-> fr], op @@ [ans |-> "Ok"]>>)

\* the outcome of read_page(page_idx, c) when self.file.pread answers fr
ReadPageOutcome(page_idx, c, fr) ==
    IF c.kind # "Read" THEN Panicked("read_page: unreachable!()")
    ELSE IF ~(page_idx > 0) THEN Panicked("read_page: assert!(page_idx > 0)")
    ELSE IF GeometryRejected(c.len) THEN Returned("NotADB", <<>>)
    ELSE LET pos == PagePos(page_idx, c.len)
         IN  IF pos.ovf /\ overflow_checks
             THEN Panicked("read_page: arithmetic overflow")
             ELSE Returned(fr, <<[op |-> "pread", pos |-> pos.val, len |-> c.len, c |-> c,
                                ans |-> fr]>>)

\* a variant that checks the buffer length as read_page does
WritePageOutcomeChecked(page_idx, buflen, c, fr) ==
    IF GeometryRejected(buflen) THEN Returned("NotADB", <<>>)
    ELSE LET pos == PagePos(page_idx, buflen)
         IN  IF pos.ovf /\ overflow_checks
             THEN Panicked("write_page: arithmetic overflow")
             ELSE Returned(fr, <<[op |-> "pwrite", pos |-> pos.val, len |-> buflen,
                                  c |-> c, ans |-> fr]>>)

\* the outcome of write_page(page_idx, buffer, c), buffer of length buflen,
\* when self.file.pwrite answers fr
WritePageOutcome(page_idx, buflen, c, fr) ==
    LET pos == PagePos(page_idx, buflen)
    IN  IF pos.ovf /\ overflow_checks
        THEN Panicked("write_page: arithmetic overflow")
        ELSE Returned(fr, <<[op |-> "pwrite", pos |-> pos.val, len |-> buflen, c |-> c,
                             ans |-> fr]>>)

\* the outcome of sync(c)
SyncOutcome(c) == Panicked("sync: todo!()")

StorageCall(call, out) ==
    /\ panic_at = "none"
    /\ db = "open"
    /\ ps_call' = call
    /\ file_ops' = out.ops
    /\ ps_result' = out.result
    /\ panic_at' = out.panic
    /\ UNCHANGED <<overflow_checks, db, page_size, new_call, run_once_calls,
                   stmtVars, rngVars, convVars,
                   borrowVars>>

ReadPage(page_idx, c, fr) ==
    /\ StorageCall([fn |-> "read_page", page_idx |-> page_idx, size |-> c.len, c |-> c],
                   ReadPageOutcome(page_idx, c, fr))
    /\ UNCHANGED cbVars

WritePage(page_idx, buflen, c, fr) ==
    /\ StorageCall([fn |-> "write_page", page_idx |-> page_idx, size |-> buflen, c |-> c],
                   WritePageOutcome(page_idx, buflen, c, fr))
    /\ UNCHANGED cbVars

Sync(c) ==
    /\ StorageCall([fn |-> "sync", page_idx |-> 0, size |-> 0, c |-> c], SyncOutcome(c))
    /\ UNCHANGED cbVars

(***************************************************************************)
(* The file behind DatabaseStorage as a file layer that owns the           *)
(* completions it is handed: an operation it accepts is fulfilled at once  *)
(* or queued and fulfilled by a later pump; one it refuses is dropped with *)
(* its completion.  Completion i is the one the caller made for c_log[i].  *)
(***************************************************************************)
\* s without its i-th element
Without(s, i) == SubSeq(s, 1, i - 1) \o SubSeq(s, i + 1, Len(s))

\* the file layer takes the operations of the call with outcome out
FileTakes(fn, out, at_once) ==
    LET id    == Len(c_log) + 1
        taken == SelectSeq(out.ops, LAMBDA o : o.ans = "Ok")
        ids   == [k \in 1..Len(taken) |-> id]
    IN  /\ Len(c_log) < MaxCompletions
        /\ c_log' = Append(c_log, [fn |-> fn, result |-> out.result,
                                    panic |-> out.panic, ops |-> Len(out.ops)])
        /\ IF at_once
           THEN fulfilled' = fulfilled \o ids /\ UNCHANGED pending
           ELSE pending' = pending \o ids /\ UNCHANGED fulfilled

\* a pump in which the file layer finishes one queued operation
FileCompletes ==
    /\ panic_at = "none"
    /\ pending # <<>>
    /\ \E i \in 1..Len(pending) :
          /\ fulfilled' = Append(fulfilled, pending[i])
          /\ pending' = Without(pending, i)
    /\ UNCHANGED <<panic_at, overflow_checks, db, page_size, new_call, run_once_calls,
                   ps_call, file_ops, ps_result, c_log, stmtVars, rngVars, convVars,
                   borrowVars>>

ReadPageQueued(page_idx, c, fr, at_once) ==
    /\ StorageCall([fn |-> "read_page", page_idx |-> page_idx, size |-> c.len, c |-> c],
                   ReadPageOutcome(page_idx, c, fr))
    /\ FileTakes("read_page", ReadPageOutcome(page_idx, c, fr), at_once)

WritePageQueued(page_idx, buflen, c, fr, at_once) ==
    /\ StorageCall([fn |-> "write_page", page_idx |-> page_idx, size |-> buflen, c |-> c],
                   WritePageOutcome(page_idx, buflen, c, fr))
    /\ FileTakes("write_page", WritePageOutcome(page_idx, buflen, c, fr), at_once)

(***************************************************************************)
(* The engine behind the connection: one table, users(id INTEGER PRIMARY   *)
(* KEY, name TEXT NOT NULL), and one cursor over it.  A cursor that has    *)
(* reported Done stays halted until it is reset.                           *)
(***************************************************************************)
Names == {"Alice", "Bob"}

\* limbo_core::Value; a Float payload is given in halves (3 is 1.5)
ENull       == [tag |-> "Null", v |-> <<>>]
EInteger(i) == [tag |-> "Integer", v |-> i]
EFloat(h)   == [tag |-> "Float", v |-> h]
EText(s)    == [tag |-> "Text", v |-> s]
EBlob(b)    == [tag |-> "Blob", v |-> b]

CreateUsers   == [kind |-> "create"]
InsertUser(n) == [kind |-> "insert", name |-> n]
SelectUsers   == [kind |-> "select"]
BadSql        == [kind |-> "bad"]

ExecSqls    == {CreateUsers, BadSql} \cup {InsertUser(n) : n \in Names}
PrepareSqls == {SelectUsers, BadSql}

NoTable == [exists |-> FALSE, rows |-> <<>>]
Table(rows) == [exists |-> TRUE, rows |-> rows]

\* Connection::execute(sql): Ok with the table afterwards, or Err
EngineExecute(sql) ==
    IF sql.kind = "create" /\ ~users.exists
    THEN [ok |-> TRUE, users |-> Table(<<>>)]
    ELSE IF sql.kind = "insert" /\ users.exists
         THEN [ok |-> TRUE,
               users |-> Table(Append(users.rows,
                                      <<EInteger(Len(users.rows) + 1), EText(sql.name)>>))]
         ELSE [ok |-> FALSE, users |-> users]

\* Connection::prepare(sql): Ok with a fresh cursor, or Err
EnginePrepare(sql) ==
    IF sql.kind = "select" /\ users.exists
    THEN [ok |-> TRUE, stmt |-> [pos |-> 0, halted |-> FALSE]]
    ELSE [ok |-> FALSE, stmt |-> [pos |-> -1, halted |-> FALSE]]

NoStmt == [pos |-> -1, halted |-> FALSE]

\* the step results Statement::step may give for the cursor as it stands
EngineCanStep(r) ==
    CASE r = "Row"  -> ~stmt.halted /\ stmt.pos < Len(users.rows)
      [] r = "Done" -> stmt.halted \/ stmt.pos = Len(users.rows)
      [] r = "IO"   -> ~stmt.halted /\ io_seen < MaxIO
      [] OTHER      -> ~stmt.halted          \* Interrupt, Busy, Err

(***************************************************************************)
(* Component::exec, Component::prepare                                     *)
(***************************************************************************)
NoHostCall == [fn |-> "none", engine_ok |-> TRUE]

HostCallable ==
    /\ panic_at = "none"
    /\ db = "open"
    /\ all_pc = "idle"

Exec(sql) ==
    /\ HostCallable
    /\ sql.kind = "insert" => Len(users.rows) < MaxRows
    /\ host_call' = [fn |-> "exec", engine_ok |-> EngineExecute(sql).ok]
    /\ LET r == EngineExecute(sql)
       IN  IF ~r.ok
           THEN /\ panic_at' = "exec: unwrap()"
                /\ UNCHANGED <<users, host_result>>
           ELSE /\ users' = r.users
                /\ host_result' = "unit"
                /\ UNCHANGED panic_at
    /\ UNCHANGED <<overflow_checks, psVars, stmt, all_pc, ret, io_seen, emitted,
                   started, last_step, all_result, steps, rngVars, convVars,
                   borrowVars>>

Prepare(sql) ==
    /\ HostCallable
    /\ host_call' = [fn |-> "prepare", engine_ok |-> EnginePrepare(sql).ok]
    /\ LET r == EnginePrepare(sql)
       IN  IF ~r.ok
           THEN /\ panic_at' = "prepare: unwrap()"
                /\ UNCHANGED <<stmt, host_result>>
           ELSE /\ stmt' = r.stmt
                /\ host_result' = "statement"
                /\ UNCHANGED panic_at
    /\ UNCHANGED <<overflow_checks, psVars, users, all_pc, ret, io_seen, emitted,
                   started, last_step, all_result, steps, rngVars, convVars,
                   borrowVars>>

\* a variant that maps Integer to the float case
RecordValueFromIntAsFloat(value) ==
    CASE value.tag = "Null"    -> [case |-> "null", val |-> <<>>]
      [] value.tag = "Integer" -> [case |-> "float", val |-> value.v]
      [] value.tag = "Float"   -> [case |-> "float", val |-> value.v]
      [] value.tag = "Text"    -> [case |-> "text", val |-> value.v]
      [] value.tag = "Blob"    -> [case |-> "blob", val |-> value.v]

(***************************************************************************)
(* impl From<limbo_core::Value> for RecordValue                            *)
(***************************************************************************)
RecordValueFrom(value) ==
    CASE value.tag = "Null"    -> [case |-> "null", val |-> <<>>]
      [] value.tag = "Integer" -> [case |-> "integer", val |-> value.v]
      [] value.tag = "Float"   -> [case |-> "float", val |-> value.v]
      [] value.tag = "Text"    -> [case |-> "text", val |-> value.v]
      [] value.tag = "Blob"    -> [case |-> "blob", val |-> value.v]

\* a variant that pushes each value at the front of row_array
RowArrayReversed(row) == [i \in 1..Len(row) |-> RecordValueFrom(row[Len(row) + 1 - i])]

\* the inner for loop: row_array for one engine row
RowArray(row) == [i \in 1..Len(row) |-> RecordValueFrom(row[i])]

\* the values a column may hold
EngineValues ==
    {ENull}
      \cup {EInteger(i) : i \in {-1, 0, 2147483647}}
      \cup {EFloat(h) : h \in {0, 3}}
      \cup {EText(t) : t \in {"", "Alice"}}
      \cup {EBlob(b) : b \in {<<>>, <<0, 255>>}}

\* the Row arm for one row of any shape: get_values(), the for loop, row_array
ConvertRow(row) ==
    /\ conv_row' = row
    /\ conv_out' = RowArray(row)
    /\ UNCHANGED <<panic_at, overflow_checks, psVars, stmtVars, rngVars, borrowVars>>

(***************************************************************************)
(* InnerStatement::all                                                     *)
(***************************************************************************)
NoResult == [kind |-> "none"]
Batch(rows) == [kind |-> "batch", rows |-> rows]

\* a variant that keeps the batch of the previous call
NewBatchKept == IF all_result.kind = "batch" THEN all_result.rows ELSE <<>>

\* let mut ret = vec![];
NewBatch == <<>>

\* a variant that inserts at the front
PushRowFront(batch, row_array) == <<row_array>> \o batch

\* ret.push(row_array)
PushRow(batch, row_array) == Append(batch, row_array)

AllFrame == <<overflow_checks, psVars, users, host_result, host_call, rngVars, convVars>>

AllBegin ==
    /\ HostCallable
    /\ stmt # NoStmt
    /\ all_pc' = "loop"
    /\ ret' = NewBatch
    /\ io_seen' = 0
    /\ emitted' = <<>>
    /\ started' = stmt
    /\ last_step' = "none"
    /\ steps' = 0
    /\ all_result' = NoResult
    /\ UNCHANGED <<panic_at, stmt, borrowVars>>
    /\ UNCHANGED AllFrame

\* a variant that grants the borrow whatever the borrow state
BorrowMutUnchecked(flag) == TRUE

\* RefCell::borrow_mut succeeds on a cell that is not borrowed, and panics otherwise
BorrowMut(flag) == flag = "free"

\* let mut stmt = self.inner.borrow_mut(); stmt.step() is entered and has
\* not returned yet
StepEnter ==
    /\ panic_at = "none"
    /\ all_pc = "loop"
    /\ in_flight = 0
    /\ BorrowMut(borrow)
    /\ borrow' = "mut"
    /\ in_flight' = 1
    /\ UNCHANGED <<panic_at, overflow_checks, psVars, stmtVars, rngVars, convVars>>

\* all() is entered again on the same statement while the step of the running
\* all() is in flight: its own first borrow_mut, and the step behind it
ReenterAll ==
    /\ panic_at = "none"
    /\ all_pc = "loop"
    /\ in_flight = 1
    /\ IF BorrowMut(borrow)
       THEN /\ in_flight' = in_flight + 1
            /\ UNCHANGED <<panic_at, borrow>>
       ELSE /\ panic_at' = "all: borrow_mut() already borrowed"
            /\ UNCHANGED <<borrow, in_flight>>
    /\ UNCHANGED <<overflow_checks, psVars, stmtVars, rngVars, convVars>>

\* the step a turn of the loop matches on: entered in this very turn, under a
\* borrow taken and dropped within it, or the one in flight, whose borrow is
\* dropped as the turn ends
StepBorrowed ==
    IF in_flight = 0
    THEN BorrowMut(borrow) /\ UNCHANGED borrowVars
    ELSE in_flight' = in_flight - 1 /\ borrow' = "free"

Stepping(r) ==
    /\ panic_at = "none"
    /\ all_pc = "loop"
    /\ EngineCanStep(r)
    /\ StepBorrowed
    /\ last_step' = r
    /\ steps' = steps + 1

\* Ok(StepResult::Row)
AllStepRow ==
    /\ Stepping("Row")
    /\ LET row == users.rows[stmt.pos + 1]
       IN  /\ ret' = PushRow(ret, RowArray(row))
           /\ emitted' = Append(emitted, row)
    /\ stmt' = [stmt EXCEPT !.pos = @ + 1]
    /\ UNCHANGED <<panic_at, all_pc, io_seen, started, all_result>>
    /\ UNCHANGED AllFrame

\* a variant that leaves the loop on IO
AllStepIOBreaks ==
    /\ Stepping("IO")
    /\ io_seen' = io_seen + 1
    /\ all_pc' = "idle"
    /\ all_result' = Batch(ret)
    /\ UNCHANGED <<panic_at, stmt, ret, emitted, started>>
    /\ UNCHANGED AllFrame

\* Ok(StepResult::IO) => {}
AllStepIO ==
    /\ Stepping("IO")
    /\ io_seen' = io_seen + 1
    /\ UNCHANGED <<panic_at, stmt, all_pc, ret, emitted, started, all_result>>
    /\ UNCHANGED AllFrame

\* a variant that tells its caller how the drain ended
BreakAndReturnHow ==
    /\ all_pc' = "idle"
    /\ all_result' = [kind |-> last_step', rows |-> ret]
    /\ UNCHANGED <<panic_at, ret, io_seen, emitted, started>>
    /\ UNCHANGED AllFrame

\* break; ret
BreakAndReturn ==
    /\ all_pc' = "idle"
    /\ all_result' = Batch(ret)
    /\ UNCHANGED <<panic_at, ret, io_seen, emitted, started>>
    /\ UNCHANGED AllFrame

\* a variant that goes on stepping after Interrupt
AllStepInterruptContinues ==
    /\ Stepping("Interrupt")
    /\ UNCHANGED <<panic_at, stmt, all_pc, ret, io_seen, emitted, started, all_result>>
    /\ UNCHANGED AllFrame

\* Ok(StepResult::Interrupt) => break
AllStepInterrupt ==
    /\ Stepping("Interrupt")
    /\ BreakAndReturn
    /\ UNCHANGED stmt

\* a variant that ignores Done and steps again
AllStepDoneIgnored ==
    /\ panic_at = "none"
    /\ all_pc = "loop"
    /\ EngineCanStep("Done")
    /\ last_step' = "Done"
    /\ stmt' = [stmt EXCEPT !.halted = TRUE]
    /\ UNCHANGED <<panic_at, all_pc, ret, io_seen, emitted, started, all_result, steps>>
    /\ UNCHANGED borrowVars
    /\ UNCHANGED AllFrame

\* Ok(StepResult::Done) => break
AllStepDone ==
    /\ Stepping("Done")
    /\ BreakAndReturn
    /\ stmt' = [stmt EXCEPT !.halted = TRUE]

\* a variant that treats Busy as an error
AllStepBusyAsError ==
    /\ Stepping("Busy")
    /\ panic_at' = "all: panic!(Busy)"
    /\ all_pc' = "idle"
    /\ UNCHANGED <<stmt, ret, io_seen, emitted, started, all_result>>
    /\ UNCHANGED AllFrame

\* Ok(StepResult::Busy) => break
AllStepBusy ==
    /\ Stepping("Busy")
    /\ BreakAndReturn
    /\ UNCHANGED stmt

\* Err(e) => panic!("Error: {:?}", e)
AllStepErr ==
    /\ Stepping("Err")
    /\ panic_at' = "all: panic!(Error)"
    /\ all_pc' = "idle"
    /\ UNCHANGED <<stmt, ret, io_seen, emitted, started, all_result>>
    /\ UNCHANGED AllFrame

(***************************************************************************)
(* imported_random                                                         *)
(***************************************************************************)
Bytes == 0..MaxByte

\* a variant that always writes the first position
StoreByteFirst(buf, i, b) == [buf EXCEPT ![1] = b]

\* dest[i] = random_byte(), b being what the host answered
StoreByte(buf, i, b) == [buf EXCEPT ![i + 1] = b]

RngFrame == <<panic_at, overflow_checks, psVars, stmtVars, convVars, borrowVars>>

\* the engine asks getrandom for len bytes; the buffer holds what its owner left in it
FillBegin(len, stale) ==
    /\ panic_at = "none"
    /\ fill_pc = "idle"
    /\ fill_pc' = "loop"
    /\ dest' = [i \in 1..len |-> stale]
    /\ fill_i' = 0
    /\ rng_calls' = <<>>
    /\ fill_result' = "none"
    /\ rng_failed' = FALSE
    /\ UNCHANGED RngFrame

\* one turn of (0..dest.len()).for_each
FillByte(b) ==
    /\ fill_pc = "loop"
    /\ fill_i < Len(dest)
    /\ dest' = StoreByte(dest, fill_i, b)
    /\ rng_calls' = Append(rng_calls, b)
    /\ fill_i' = fill_i + 1
    /\ UNCHANGED <<fill_pc, fill_result, rng_failed>>
    /\ UNCHANGED RngFrame

\* one turn in which the host has no entropy to give: random_byte() returns
\* no byte, the host call fails and the instance traps
FillHostUnavailable ==
    /\ panic_at = "none"
    /\ fill_pc = "loop"
    /\ fill_i < Len(dest)
    /\ rng_failed' = TRUE
    /\ panic_at' = "random_byte: host trap"
    /\ fill_pc' = "idle"
    /\ UNCHANGED <<dest, fill_i, rng_calls, fill_result>>
    /\ UNCHANGED <<overflow_checks, psVars, stmtVars, convVars, borrowVars>>

\* Ok(())
FillReturn ==
    /\ fill_pc = "loop"
    /\ fill_i = Len(dest)
    /\ fill_pc' = "idle"
    /\ fill_result' = "Ok"
    /\ UNCHANGED <<dest, fill_i, rng_calls, rng_failed>>
    /\ UNCHANGED RngFrame

(***************************************************************************)
(* Specifications                                                          *)
(***************************************************************************)
Init ==
    /\ panic_at = "none"
    /\ overflow_checks \in BOOLEAN
    /\ db = "none"
    /\ page_size = 0
    /\ new_call = NoNew
    /\ run_once_calls = 0
    /\ ps_call = NoCall
    /\ file_ops = <<>>
    /\ ps_result = "none"
    /\ c_log = <<>>
    /\ pending = <<>>
    /\ fulfilled = <<>>
    /\ users = NoTable
    /\ stmt = NoStmt
    /\ all_pc = "idle"
    /\ ret = <<>>
    /\ io_seen = 0
    /\ emitted = <<>>
    /\ started = NoStmt
    /\ last_step = "none"
    /\ all_result = NoResult
    /\ host_result = "none"
    /\ host_call = NoHostCall
    /\ steps = 0
    /\ fill_pc = "idle"
    /\ dest = <<>>
    /\ fill_i = 0
    /\ rng_calls = <<>>
    /\ fill_result = "none"
    /\ rng_failed = FALSE
    /\ conv_row = <<>>
    /\ conv_out = <<>>
    /\ borrow = "free"
    /\ in_flight = 0

Open ==
    \E path \in Paths, pumps \in 0..MaxPumps, ps \in HeaderPageSizes,
       unread \in UnreadPageSizes : New(path, pumps, ps, unread)

NextPageStore ==
    \/ Open
    \/ \E p \in PageIdxs, c \in Completions, fr \in FileResults : ReadPage(p, c, fr)
    \/ \E p \in PageIdxs, n \in BufLens, k \in CompletionKinds, fr \in FileResults :
           WritePage(p, n, [kind |-> k, len |-> n], fr)
    \/ \E k \in CompletionKinds : Sync([kind |-> k, len |-> 0])

\* the calls whose completions are followed
QueuedPages == {0, 1, 65537}
QueuedLens  == {512, 768, 65536}

NextCompletions ==
    \/ Open
    \/ \E p \in QueuedPages, k \in {"Read", "Write"}, n \in QueuedLens,
          fr \in FileResults, at_once \in BOOLEAN :
           ReadPageQueued(p, [kind |-> k, len |-> n], fr, at_once)
    \/ \E p \in QueuedPages, n \in QueuedLens, fr \in FileResults, at_once \in BOOLEAN :
           WritePageQueued(p, n, [kind |-> "Write", len |-> n], fr, at_once)
    \/ FileCompletes

NextStatement ==
    \/ Open
    \/ \E sql \in ExecSqls : Exec(sql)
    \/ \E sql \in PrepareSqls : Prepare(sql)
    \/ AllBegin
    \/ AllStepRow
    \/ AllStepIO
    \/ AllStepInterrupt
    \/ AllStepDone
    \/ AllStepBusy
    \/ AllStepErr

\* the statement calls, with the step of a turn entered and returned apart
\* and all() entered again in between
NextReentry ==
    \/ NextStatement
    \/ StepEnter
    \/ ReenterAll

NextEntropy ==
    \/ \E len \in 0..MaxFill, stale \in Bytes : FillBegin(len, stale)
    \/ \E b \in Bytes : FillByte(b)
    \/ FillHostUnavailable
    \/ FillReturn

NextValues ==
    \E n \in 0..MaxCols : \E row \in [1..n -> EngineValues] : ConvertRow(row)

Next ==
    \/ NextPageStore \/ NextCompletions \/ NextStatement \/ NextReentry
    \/ NextEntropy \/ NextValues

SpecPageStore == Init /\ [][NextPageStore]_vars
SpecCompletions == Init /\ [][NextCompletions]_vars
SpecStatement == Init /\ [][NextStatement]_vars
SpecReentry   == Init /\ [][NextReentry]_vars
SpecEntropy   == Init /\ [][NextEntropy]_vars
SpecValues    == Init /\ [][NextValues]_vars

\* one turn of the loop in all(): stmt.step() and the arm its result selects
AllStep ==
    \/ AllStepRow
    \/ AllStepIO
    \/ AllStepInterrupt
    \/ AllStepDone
    \/ AllStepBusy
    \/ AllStepErr

\* all() is straight-line code around a bare loop: once entered it keeps
\* stepping for as long as the engine answers its step() calls
SpecStatementLive == SpecStatement /\ WF_vars(AllStep)
Spec          == Init /\ [][Next]_vars

(***************************************************************************)
(* Properties                                                              *)
(***************************************************************************)

\* all() matched step result r in this step (only steps run while all_pc = "loop")
StepTaken(r) == all_pc = "loop" /\ last_step' = r

\* the boundary form of a users row: its values in column order, each under its tag
BoundaryRow(row) == <<[case |-> "integer", val |-> row[1].v],
                      [case |-> "text", val |-> row[2].v]>>
BoundaryRows(rows) == [i \in 1..Len(rows) |-> BoundaryRow(rows[i])]

\* C1: when the cursor reports Done, all() returns on that step, and what it
\* returns is one row per row the cursor emitted in this call, in emission
\* order: all the rows the query had left, whatever IO results came between.
C1_AllReturnsEveryRowOnDone ==
    [][StepTaken("Done") =>
          /\ panic_at' = "none"
          /\ all_pc' = "idle"
          /\ all_result' = Batch(BoundaryRows(emitted))
          /\ ~started.halted =>
                emitted = SubSeq(users.rows, started.pos + 1, Len(users.rows))]_vars

C1_Witness ==
    /\ all_pc = "idle" /\ last_step = "Done" /\ io_seen = MaxIO
    /\ all_result.kind = "batch" /\ Len(all_result.rows) = MaxRows
    /\ all_result.rows[1][2].val # all_result.rows[2][2].val

\* C2: when a step gives Interrupt or Busy after K rows were emitted, all()
\* returns exactly those K rows in emission order and raises no error.
C2_PartialBatchOnInterruptOrBusy ==
    [][(StepTaken("Interrupt") \/ StepTaken("Busy")) =>
          /\ panic_at' = "none"
          /\ all_pc' = "idle"
          /\ all_result' = Batch(BoundaryRows(emitted))
          /\ emitted = SubSeq(users.rows, started.pos + 1, stmt.pos)]_vars

C2_Witness ==
    /\ all_pc = "idle" /\ last_step = "Busy" /\ panic_at = "none"
    /\ all_result.kind = "batch" /\ Len(all_result.rows) = 1
    /\ stmt.pos = 1 /\ Len(users.rows) = 2

\* C3: a step that reports an engine error after K rows hands the error to
\* the caller as a value, with the K rows, and does not abort.
C3_StepErrorIsReturned ==
    last_step = "Err" =>
        /\ panic_at = "none"
        /\ all_result.kind = "error"
        /\ all_result.rows = BoundaryRows(emitted)

\* C4: all() on a cursor that an earlier all() drained to Done returns the
\* empty batch on its first step and leaves the cursor where it was, however
\* often it is repeated.
C4_RedrainIsEmpty ==
    [][(all_pc = "loop" /\ started.halted) =>
          /\ last_step' = "Done"
          /\ all_result' = Batch(<<>>)
          /\ stmt' = stmt
          /\ panic_at' = "none"]_vars

C4_Witness ==
    /\ all_pc = "idle" /\ last_step = "Done" /\ started.halted
    /\ started.pos = MaxRows /\ Len(users.rows) = MaxRows
    /\ all_result = Batch(<<>>)

\* the page sizes the format allows: the powers of two from 512 to 65536
ValidPageSizes == {512, 1024, 2048, 4096, 8192, 16384, 32768, 65536}

\* (page_idx - 1) * p fits in a usize, p a valid page size
OffsetFits(page_idx, p) == (page_idx - 1) \div (LimbBase \div p) < LimbBase

\* pos is the usize (page_idx - 1) * p, p a valid page size
IsOffsetOf(pos, page_idx, p) ==
    /\ OffsetFits(page_idx, p)
    /\ pos = <<(page_idx - 1) \div (LimbBase \div p),
               ((page_idx - 1) % (LimbBase \div p)) * p>>

ReadOfValidPage ==
    /\ ps_call.fn = "read_page"
    /\ ps_call.c.kind = "Read"
    /\ ps_call.page_idx >= 1
    /\ ps_call.size \in ValidPageSizes

OneReadAtPageOffset ==
    /\ panic_at = "none"
    /\ Len(file_ops) = 1
    /\ file_ops[1].op = "pread"
    /\ file_ops[1].len = ps_call.size
    /\ file_ops[1].c = ps_call.c
    /\ IsOffsetOf(file_ops[1].pos, ps_call.page_idx, ps_call.size)

\* C5 as stated: for every page_index >= 1 and every valid buffer length p,
\* read_page issues exactly one read, at offset (page_index - 1) * p, of p
\* bytes, with the caller's completion.
C5_ReadAtPageOffset_AnyPage == ReadOfValidPage => OneReadAtPageOffset

\* C5 amended: the same for every page whose offset (page_index - 1) * p fits
\* in a usize.
C5_ReadAtPageOffset ==
    (ReadOfValidPage /\ OffsetFits(ps_call.page_idx, ps_call.size)) => OneReadAtPageOffset

C5_Witness ==
    /\ ReadOfValidPage /\ OneReadAtPageOffset
    /\ ps_call.page_idx = 32769 /\ ps_call.size = 65536
    /\ file_ops[1].pos = <<32768, 0>>

\* C6: read_page with page_index >= 1 and a buffer whose length is not a
\* power of two in [512, 65536] returns the validation error and issues no
\* operation on the file.
C6_BadGeometryRejected ==
    (/\ ps_call.fn = "read_page"
     /\ ps_call.c.kind = "Read"
     /\ ps_call.page_idx >= 1
     /\ ps_call.size \notin ValidPageSizes)
    => (panic_at = "none" /\ ps_result = "NotADB" /\ file_ops = <<>>)

C6_Witness ==
    /\ ps_call.fn = "read_page" /\ ps_call.c.kind = "Read"
    /\ ps_call.page_idx = 2 /\ ps_call.size = 768
    /\ ps_result = "NotADB" /\ file_ops = <<>>

\* C7: a buffer handed to read_page or write_page whose length differs from
\* the page size read at open is rejected with an error, and no file
\* operation is issued for it.
C7_BufferCheckedAgainstOpenPageSize ==
    (/\ ps_call.fn \in {"read_page", "write_page"}
     /\ panic_at = "none"
     /\ ps_call.size # page_size)
    => (file_ops = <<>> /\ ps_result \notin {"none", "Ok"})

\* C8: a fill of a buffer of length L calls random_byte exactly L times, and
\* position i holds what the i-th call returned.
C8_FillIsTheHostBytesInOrder ==
    /\ Len(rng_calls) = fill_i
    /\ \A i \in 1..fill_i : dest[i] = rng_calls[i]
    /\ fill_result = "Ok" => (fill_i = Len(dest) /\ Len(rng_calls) = Len(dest))

C8_Witness ==
    /\ fill_result = "Ok" /\ Len(dest) = 3
    /\ rng_calls = <<1, 0, 2>> /\ dest = <<1, 0, 2>>

\* C9: draining a freshly prepared SELECT to Done yields the rows the execs
\* inserted, in order of insertion, each [Integer(rowid), Text(name)].
C9_SelectYieldsInsertedRows ==
    [][(StepTaken("Done") /\ ~started.halted /\ started.pos = 0) =>
          all_result' = Batch([i \in 1..Len(users.rows) |->
                                 <<[case |-> "integer", val |-> i],
                                   [case |-> "text", val |-> users.rows[i][2].v]>>])]_vars

C9_Witness ==
    /\ db = "open" /\ last_step = "Done" /\ started = [pos |-> 0, halted |-> FALSE]
    /\ all_result = Batch(<< <<[case |-> "integer", val |-> 1],
                               [case |-> "text", val |-> "Alice"]>> >>)

\* C10: sync returns an explicit Unimplemented/Unsupported error to its
\* caller and does not abort.
C10_SyncReturnsUnsupported ==
    ps_call.fn = "sync" =>
        (panic_at = "none" /\ ps_result \in {"Unimplemented", "Unsupported"})

\* C11: Component::new with a path other than ":memory:" hands its caller a
\* configuration error; it does not abort.
C11_OtherPathIsConfigError ==
    (new_call.path # "none" /\ new_call.path # ":memory:") =>
        (panic_at = "none" /\ host_result = "ConfigError")

\* C14: whenever Component::new has read the page size from the header, the
\* header read that begin_open started had completed, however many pumps the
\* file layer needed for it.
C14_HeaderReadBeforePageSize ==
    new_call.path = ":memory:" => new_call.header_ready

\* C12: when the engine reports an error for exec(sql), the call ends with an
\* error handed to the host and nothing has aborted: the handle still takes
\* exec and prepare calls.
C12_ExecErrorIsReported ==
    (host_call.fn = "exec" /\ ~host_call.engine_ok) =>
        (host_result = "EngineError" /\ HostCallable)

\* C15: a fill during which the host has no entropy to give ends with the
\* EntropyUnavailable error returned to its caller, and is not reported as a
\* successful fill.
C15_NoEntropyIsAnError ==
    rng_failed => (panic_at = "none" /\ fill_result = "EntropyUnavailable")

\* the step results on which all() leaves its loop and returns
Terminal == {"Interrupt", "Done", "Busy"}

\* this step is a stmt.step() call of all() that returned r
StepReturned(r) == steps' = steps + 1 /\ last_step' = r

\* C16: within one all(), a step that returns IO leaves the batch as it was
\* and the call running, the next thing all() does is another step on the
\* same statement, and all() calls io.run_once() neither on the IO result nor
\* before that next step.
C16_IOPendingStepsAgainUnpumped ==
    [][/\ StepReturned("IO") =>
             /\ ret' = ret
             /\ stmt' = stmt
             /\ all_pc' = "loop"
             /\ all_result' = NoResult
             /\ panic_at' = "none"
             /\ run_once_calls' = run_once_calls
       /\ (all_pc = "loop" /\ last_step = "IO") =>
             /\ steps' = steps + 1
             /\ run_once_calls' = run_once_calls]_vars

C16_Witness ==
    /\ all_pc = "loop" /\ last_step = "IO" /\ io_seen = MaxIO
    /\ steps = MaxIO + 1 /\ Len(ret) = 1 /\ Len(users.rows) = 2

\* C17: within one all(), a step that returns Interrupt, Done or Busy ends the
\* call, and no step is made until another all() begins; after a step that
\* returns Row or IO the call goes on and what it does next is one more step.
C17_TerminalStepEndsTheCall ==
    [][/\ (\E r \in Terminal : StepReturned(r)) => all_pc' = "idle"
       /\ (all_pc = "idle" /\ last_step \in Terminal) =>
             (steps' = steps \/ (all_pc' = "loop" /\ steps' = 0))
       /\ (StepReturned("Row") \/ StepReturned("IO")) => all_pc' = "loop"
       /\ (all_pc = "loop" /\ last_step \in {"Row", "IO"}) => steps' = steps + 1]_vars

C17_Witness ==
    /\ all_pc = "idle" /\ last_step = "Interrupt" /\ panic_at = "none"
    /\ steps = 4 /\ Len(emitted) = 2 /\ io_seen = 1

\* C18: an all() whose engine has finitely many rows to emit and answers IO
\* at most MaxIO times comes to an end; the loop itself sets no limit:
\* a step that returns IO keeps the call in its loop, and all() neither pumps
\* nor counts such steps.
C18_AllComesToAnEnd ==
    /\ (all_pc = "loop") ~> (all_pc = "idle")
    /\ [][StepReturned("IO") =>
             (all_pc' = "loop" /\ run_once_calls' = run_once_calls)]_vars

C18_Witness ==
    /\ all_pc = "idle" /\ panic_at = "none" /\ all_result.kind = "batch"
    /\ steps = MaxRows + MaxIO + 1 /\ io_seen = MaxIO

\* C19: what all() returns is a function of the rows emitted before the step
\* that ended it, and of nothing else: the batch of those rows in order, the
\* same whether that step reported Done, Busy or Interrupt.
C19_BatchDependsOnRowsOnly ==
    [][(all_pc = "loop" /\ all_pc' = "idle" /\ panic_at' = "none") =>
          /\ last_step' \in Terminal
          /\ all_result' = [kind |-> "batch", rows |-> BoundaryRows(emitted)]]_vars

C19_Witness ==
    /\ all_pc = "idle" /\ last_step = "Busy" /\ panic_at = "none"
    /\ started = [pos |-> 0, halted |-> FALSE]
    /\ stmt.pos = 2 /\ Len(users.rows) = 2
    /\ all_result = Batch(BoundaryRows(users.rows))

\* (page_idx - 1) * n by limbs, n any buffer length: the low limb, and
\* everything above it
ProductLow(page_idx, n)  == ((page_idx - 1) % LimbBase) * (n % LimbBase)
ProductHigh(page_idx, n) ==
    ((page_idx - 1) \div LimbBase) * (n % LimbBase)
      + ((page_idx - 1) % LimbBase) * (n \div LimbBase)
      + (ProductLow(page_idx, n) \div LimbBase)

\* (page_idx - 1) * n fits in a usize
ProductFits(page_idx, n) ==
    /\ ((page_idx - 1) \div LimbBase) * (n \div LimbBase) = 0
    /\ ProductHigh(page_idx, n) < LimbBase

WriteOfPage ==
    /\ ps_call.fn = "write_page"
    /\ ps_call.page_idx >= 1

OneWriteAtPageOffset ==
    /\ panic_at = "none"
    /\ Len(file_ops) = 1
    /\ file_ops[1].op = "pwrite"
    /\ file_ops[1].len = ps_call.size
    /\ file_ops[1].c = ps_call.c
    /\ ProductFits(ps_call.page_idx, ps_call.size)
    /\ file_ops[1].pos = <<ProductHigh(ps_call.page_idx, ps_call.size),
                           ProductLow(ps_call.page_idx, ps_call.size) % LimbBase>>
    /\ ps_result = file_ops[1].ans

\* C20 as stated: for every page_index >= 1 and every buffer length n,
\* write_page checks nothing about n and issues exactly one write of the
\* buffer at offset (page_index - 1) * n, its result being the file's.
C20_WriteAtPageOffset_AnyPage == WriteOfPage => OneWriteAtPageOffset

\* C20 amended: the same for every page and length whose offset
\* (page_index - 1) * n fits in a usize.
C20_WriteAtPageOffset ==
    (WriteOfPage /\ ProductFits(ps_call.page_idx, ps_call.size)) => OneWriteAtPageOffset

C20_Witness ==
    /\ WriteOfPage /\ OneWriteAtPageOffset
    /\ ps_call.page_idx = 32769 /\ ps_call.size = 65537
    /\ file_ops[1].pos = <<32768, 32768>>
    /\ ps_result = "IOError"

\* how often completion i occurs in s
Times(s, i) == Cardinality({k \in 1..Len(s) : s[k] = i})

\* C13: over any sequence of read_page and write_page calls, each completion
\* is handed to at most one file operation and fulfilled at most once, and
\* only if it was handed to one; the completion of a call that validation
\* rejected is handed to none and never fulfilled.
C13_CompletionFulfilledAtMostOnce ==
    /\ \A i \in 1..Len(c_log) :
          /\ c_log[i].ops <= 1
          /\ Times(fulfilled, i) + Times(pending, i) <= c_log[i].ops
          /\ c_log[i].result = "NotADB" =>
                (c_log[i].ops = 0 /\ Times(fulfilled, i) = 0 /\ Times(pending, i) = 0)
    /\ \A k \in 1..Len(fulfilled) : fulfilled[k] \in 1..Len(c_log)
    /\ \A k \in 1..Len(pending) : pending[k] \in 1..Len(c_log)

C13_Witness ==
    /\ Len(c_log) = 2 /\ panic_at = "none"
    /\ c_log[1].fn = "read_page" /\ c_log[1].ops = 1
    /\ c_log[2].fn = "write_page" /\ c_log[2].ops = 1
    /\ fulfilled = <<2, 1>> /\ pending = <<>>

\* C21: neither read_page nor write_page issues an operation on the file when
\* page_index is 0: the call is stopped before (page_index - 1) * size becomes
\* a file offset.
C21_PageZeroIssuesNoFileOp ==
    (ps_call.fn \in {"read_page", "write_page"} /\ ps_call.page_idx = 0) =>
        file_ops = <<>>

\* the boundary case that stands for each engine tag
CaseOfTag ==
    [t \in {"Null", "Integer", "Float", "Text", "Blob"} |->
        CASE t = "Null"    -> "null"
          [] t = "Integer" -> "integer"
          [] t = "Float"   -> "float"
          [] t = "Text"    -> "text"
          [] t = "Blob"    -> "blob"]

\* boundary values a and b are the same value
SameBoundaryValue(a, b) == a.case = b.case /\ a.val = b.val

\* engine values v and w are the same value
SameEngineValue(v, w) == v.tag = w.tag /\ v.v = w.v

\* C22: a converted row has as many columns as the engine row, and column i
\* carries the case of the engine value's tag and its payload; two engine
\* values that convert to the same boundary value are the same value.
C22_ConversionKeepsTagAndPayload ==
    /\ Len(conv_out) = Len(conv_row)
    /\ \A i \in 1..Len(conv_row) :
          /\ conv_out[i].case = CaseOfTag[conv_row[i].tag]
          /\ conv_row[i].tag # "Null" => conv_out[i].val = conv_row[i].v
    /\ \A i, j \in 1..Len(conv_row) :
          SameBoundaryValue(conv_out[i], conv_out[j]) =>
              SameEngineValue(conv_row[i], conv_row[j])

C22_Witness ==
    /\ Len(conv_row) = 2 /\ Len(conv_out) = 2
    /\ conv_row[1].tag = "Blob" /\ conv_row[1].v = <<0, 255>>
    /\ conv_row[2].tag = "Float" /\ conv_row[2].v = 3
    /\ conv_out[1].case = "blob" /\ conv_out[1].val = <<0, 255>>
    /\ conv_out[2].case = "float" /\ conv_out[2].val = 3

\* C23: at most one step on the statement is in flight at any time; the
\* statement is exclusively borrowed exactly while a step is in flight, so the
\* borrow is free again before the next turn of the loop and when all() has
\* returned; an all() entered while a step is in flight fails on its
\* borrow_mut with that step still the only one in flight.
C23_OneStepInFlight ==
    /\ in_flight <= 1
    /\ (borrow = "mut") <=> (in_flight = 1)
    /\ all_pc = "idle" => borrow = "free"
    /\ panic_at = "all: borrow_mut() already borrowed" =>
          (in_flight = 1 /\ borrow = "mut" /\ all_pc = "loop")

C23_Witness ==
    /\ panic_at = "all: borrow_mut() already borrowed"
    /\ in_flight = 1 /\ borrow = "mut"
    /\ steps = 2 /\ last_step = "IO" /\ Len(ret) = 1

====
